---- MODULE Spec2Model ----
(***************************************************************************)
(* Model of the directory service of ImageManager: the directory grant     *)
(* flow (DirectoryService.selectDirectory) and the recursive scanner       *)
(* (DirectoryService.getImageFiles / _scanDirectory / _isImageFile).       *)
(*                                                                         *)
(* Strings are sequences of characters, a character being a one-symbol     *)
(* token.  The platform (File System Access API) is the environment: the   *)
(* directory tree is fixed in the initial state, the outcome of every      *)
(* platform call (chooser, iterator next(), getFile()) is chosen when the  *)
(* call settles.                                                           *)
(***************************************************************************)
EXTENDS Integers, Sequences, FiniteSets, TLC

VARIABLES
  fs,              \* the directory tree behind the scanned handle
  scanState,       \* position of getImageFiles: idle, running, resolved, rejected
  stack,           \* active _scanDirectory calls, innermost last
  awaiting,        \* the platform call the scan is suspended on
  imageFiles,      \* the array getImageFiles fills and sorts
  scanResult,      \* what getImageFiles resolved or rejected with
  getFileCalls,    \* entries getFile() was called on, in call order
  fileFailed,      \* entries whose getFile() rejected
  enumFailed,      \* iterators that threw: directory (0 is the scan root) and
                   \* the number of entries it had yielded before
  rootThrown,      \* what the iterator of the scan root threw
  enumCalls,       \* directories whose entries() was iterated, in call order
  supported,       \* 'showDirectoryPicker' in window
  directoryHandle, \* DirectoryService._directoryHandle
  pickerPending,   \* selectDirectory calls suspended on the chooser
  pickerCalls,     \* invocations of window.showDirectoryPicker so far
  selectCalls,     \* calls of selectDirectory so far
  lastOutcome,     \* how the most recently settled selectDirectory call ended
  lastGranted,     \* handle of the most recent chooser call that resolved
  lastCause,       \* what the chooser rejected with in the most recently settled call
  watchOutcome,    \* how the most recent watchDirectory / unwatchDirectory call ended
  devMode,         \* import.meta.env.DEV
  currentDirectory,   \* _currentDirectory of the development-capable service
  sharedService,      \* both components got the same DirectoryService object
  selectorIsLoading,  \* DirectorySelector.isLoading
  selectorError,      \* DirectorySelector.error
  selectedDirectory,  \* DirectoryBrowser.selectedDirectory
  browserImageFiles,  \* DirectoryBrowser.imageFiles
  browserIsLoading,   \* DirectoryBrowser.isLoading
  browserError,       \* DirectoryBrowser.error
  sortBy,             \* DirectoryBrowser.sortBy
  sortOrder,          \* DirectoryBrowser.sortOrder
  browserHandle,      \* _directoryHandle of the service DirectoryBrowser constructed
  scanning,           \* the handle DirectoryBrowser's getImageFiles call is pending on
  selectedFile,       \* the selectedFile prop of DirectoryBrowser
  targetDir,          \* the directory findAvailableDirectory() of the server returns
  fileResponse        \* the latest request to /api/images/file and its answer

scanVars == <<fs, scanState, stack, awaiting, imageFiles, scanResult,
              getFileCalls, fileFailed, enumFailed, rootThrown, enumCalls>>
grantVars == <<supported, directoryHandle, pickerPending, pickerCalls,
               selectCalls, lastOutcome, lastGranted, lastCause>>
devVars == <<devMode, currentDirectory>>
uiVars == <<sharedService, selectorIsLoading, selectorError, selectedDirectory,
            browserImageFiles, browserIsLoading, browserError, sortBy, sortOrder,
            browserHandle, scanning, selectedFile>>
serverVars == <<targetDir, fileResponse>>
extVars == <<watchOutcome, devMode, currentDirectory,
             sharedService, selectorIsLoading, selectorError, selectedDirectory,
             browserImageFiles, browserIsLoading, browserError, sortBy, sortOrder,
             browserHandle, scanning, selectedFile, targetDir, fileResponse>>
vars == <<fs, scanState, stack, awaiting, imageFiles, scanResult,
          getFileCalls, fileFailed, enumFailed, rootThrown, enumCalls,
          supported, directoryHandle, pickerPending, pickerCalls,
          selectCalls, lastOutcome, lastGranted, lastCause,
          watchOutcome, devMode, currentDirectory,
          sharedService, selectorIsLoading, selectorError, selectedDirectory,
          browserImageFiles, browserIsLoading, browserError, sortBy, sortOrder,
          browserHandle, scanning, selectedFile, targetDir, fileResponse>>

----------------------------------------------------------------------------
(* Bounds *)

MaxNodes == 3        \* entries in the scanned tree, all levels together
MaxTime == 2         \* lastModified values are 1..MaxTime
MaxSelectCalls == 4  \* selectDirectory calls in one behaviour
MaxPending == 2      \* selectDirectory calls suspended at the same time
MaxDevNodes == 2     \* entries in the directory the development server lists
MaxOrderNodes == 2   \* entries in the trees whose enumeration orders are compared
MaxFairNodes == 2    \* entries in the trees scanned under fairness
MaxUrlSegments == 3  \* path segments in the name a request to /api/images/file carries

----------------------------------------------------------------------------
(* Strings *)

Max(a, b) == IF a >= b THEN a ELSE b

RECURSIVE Flatten(_)
Flatten(ss) == IF ss = <<>> THEN <<>> ELSE Head(ss) \o Flatten(Tail(ss))

\* String.prototype.toLowerCase on one character.  U+0130 (capital I with
\* dot above) lower-cases to the two code units U+0069 U+0307.
LowerChar(c) ==
  CASE c = "J" -> <<"j">>
    [] c = "P" -> <<"p">>
    [] c = "G" -> <<"g">>
    [] c = "N" -> <<"n">>
    [] c = "U+0130" -> <<"i", "U+0307">>
    [] OTHER -> <<c>>

ToLowerCase(s) == Flatten([i \in 1..Len(s) |-> LowerChar(s[i])])

\* String.prototype.lastIndexOf: 0-based index of the last c, -1 if none
LastIndexOf(s, c) ==
  IF \E i \in 1..Len(s) : s[i] = c
    THEN (CHOOSE i \in 1..Len(s) : s[i] = c /\ \A j \in (i+1)..Len(s) : s[j] # c) - 1
    ELSE -1

\* String.prototype.substring(start): a negative start counts as 0
Substring(s, start) == SubSeq(s, Max(start, 0) + 1, Len(s))

----------------------------------------------------------------------------
(* The platform: directory trees and failure values *)

\* Entry names the trees are built from.
\* b.jpg, c.PnG (mixed case), n.txt, jpg (no '.'), and U+0130 followed by .jpg
FileNames == { <<"b", ".", "j", "p", "g">>,
               <<"c", ".", "P", "n", "G">>,
               <<"n", ".", "t", "x", "t">>,
               <<"j", "p", "g">>,
               <<"U+0130", ".", "j", "p", "g">> }

\* a, and a directory whose name ends in .jpg
DirNames == { <<"a">>, <<"s", ".", "j", "p", "g">> }

Times == 1..MaxTime

\* A tree is a sequence of entries numbered in the order a depth-first walk
\* meets them; parent 0 is the scan root.  A directory's iterator yields its
\* children in increasing number.
RECURSIVE Ancestors(_, _)
Ancestors(t, i) == IF i = 0 THEN {0} ELSE {i} \cup Ancestors(t, t[i].parent)

AttachPoints(t) ==
  IF t = <<>> THEN {0}
  ELSE {d \in Ancestors(t, Len(t)) : d = 0 \/ t[d].kind = "directory"}

SiblingNames(t, d) == {t[i].name : i \in {j \in 1..Len(t) : t[j].parent = d}}

Extensions(t) ==
  { [parent |-> d, kind |-> "file", name |-> nm, lastModified |-> tm] :
       d \in AttachPoints(t), nm \in FileNames, tm \in Times }
  \cup
  { [parent |-> d, kind |-> "directory", name |-> nm, lastModified |-> 0] :
       d \in AttachPoints(t), nm \in DirNames }

RECURSIVE Trees(_)
Trees(n) ==
  IF n = 0 THEN {<<>>}
  ELSE LET smaller == Trees(n - 1)
       IN smaller \cup
          UNION { { Append(t, nd) :
                      nd \in {e \in Extensions(t) : e.name \notin SiblingNames(t, e.parent)} } :
                  t \in {v \in smaller : Len(v) = n - 1} }

\* FileSystemDirectoryHandle.entries(): the children of d in iteration order
RECURSIVE ChildrenUpTo(_, _, _)
ChildrenUpTo(t, d, n) ==
  IF n = 0 THEN <<>>
  ELSE IF t[n].parent = d THEN Append(ChildrenUpTo(t, d, n - 1), n)
       ELSE ChildrenUpTo(t, d, n - 1)

Children(t, d) == ChildrenUpTo(t, d, Len(t))

\* Values a platform call can throw.  isError: instanceof Error; name: what
\* .name reads; text: the message of an Error, String(value) of anything else.
EnumThrown == { [isError |-> TRUE, name |-> "NotFoundError", text |-> "entry is gone"],
                [isError |-> FALSE, name |-> "", text |-> "boom"] }

GetFileThrown == { [isError |-> TRUE, name |-> "NotReadableError", text |-> "unreadable"] }

PickerThrown ==
  [ isError : BOOLEAN,
    name : {"AbortError", "NotAllowedError", "SecurityError"},
    text : {"User cancelled", "The request is not allowed"} ]

Handles == {"h1", "h2"}

\* FileSystemDirectoryHandle.name
HandleName(h) == IF h = "h1" THEN "photos" ELSE "scans"

----------------------------------------------------------------------------
(* DirectoryService: pure parts *)

SupportedExtensions == << <<".", "j", "p", "g">>,
                          <<".", "j", "p", "e", "g">>,
                          <<".", "p", "n", "g">>,
                          <<".", "g", "i", "f">>,
                          <<".", "w", "e", "b", "p">> >>

Includes(arr, x) == \E i \in 1..Len(arr) : arr[i] = x

IsImageFile(fileName) ==
  LET extension == Substring(ToLowerCase(fileName), LastIndexOf(fileName, "."))
  IN Includes(SupportedExtensions, extension)

\* CurrentPath without the test of basePath: a '/' is always put in front
CurrentPath_LeadingSlash(basePath, name) == basePath \o <<"/">> \o name

\* CurrentPath that forgets the directories above the entry
CurrentPath_LeafOnly(basePath, name) == name

CurrentPath(basePath, name) ==
  IF basePath # <<>> THEN basePath \o <<"/">> \o name ELSE name

\* error instanceof Error ? error : new Error(String(error))
AsError(error) ==
  IF error.isError THEN error
  ELSE [isError |-> TRUE, name |-> "Error", text |-> error.text]

DirectoryServiceError(type, message, originalError) ==
  [type |-> type, message |-> message, originalError |-> originalError]

NoError == [isError |-> FALSE, name |-> "undefined", text |-> "undefined"]

ImageFileInfo(t, c, currentPath) ==
  [ file |-> c,
    name |-> t[c].name,
    lastModified |-> t[c].lastModified,
    createdDate |-> t[c].lastModified,
    path |-> currentPath,
    thumbnailUrl |-> "undefined" ]

\* DefaultCompare with the operands exchanged: oldest first
DefaultCompare_Ascending(a, b) == a.createdDate - b.createdDate

\* the comparator of the default sort: b.createdDate - a.createdDate
DefaultCompare(a, b) == b.createdDate - a.createdDate

\* Array.prototype.sort with DefaultCompare: a stable sort
\* InsertSorted that puts x in front of the records it compares equal to
RECURSIVE InsertSorted_BeforeEquals(_, _)
InsertSorted_BeforeEquals(sorted, x) ==
  IF sorted = <<>> THEN <<x>>
  ELSE LET last == sorted[Len(sorted)]
       IN IF DefaultCompare(last, x) < 0
            THEN Append(sorted, x)
            ELSE Append(InsertSorted_BeforeEquals(SubSeq(sorted, 1, Len(sorted) - 1), x),
                        last)

RECURSIVE InsertSorted(_, _)
InsertSorted(sorted, x) ==
  IF sorted = <<>> THEN <<x>>
  ELSE LET last == sorted[Len(sorted)]
       IN IF DefaultCompare(last, x) <= 0
            THEN Append(sorted, x)
            ELSE Append(InsertSorted(SubSeq(sorted, 1, Len(sorted) - 1), x), last)

\* DefaultSort that leaves the array as it was filled
DefaultSort_Unsorted(arr) == arr

RECURSIVE DefaultSort(_)
DefaultSort(arr) ==
  IF arr = <<>> THEN <<>>
  ELSE InsertSorted(DefaultSort(SubSeq(arr, 1, Len(arr) - 1)), arr[Len(arr)])

\* ScanCatch without the root test: every iterator failure is logged
ScanCatch_AlwaysContinue(basePath) == "continue"

\* ScanCatch that rethrows at every level
ScanCatch_AlwaysRethrow(basePath) == "rethrow"

\* the catch block of _scanDirectory
ScanCatch(basePath) == IF basePath = <<>> THEN "rethrow" ELSE "continue"

\* the catch block of getImageFiles
GetImageFilesCatch(error) ==
  DirectoryServiceError("FILE_SCAN_FAILED", "MSG_FILE_SCAN_FAILED", AsError(error))

----------------------------------------------------------------------------
(* DirectoryService.getImageFiles and _scanDirectory, one step per await *)

Top == stack[Len(stack)]

NoResult == [status |-> "none", files |-> <<>>,
             error |-> DirectoryServiceError("none", "none", NoError)]

Resolved(files) == [status |-> "resolved", files |-> files,
                    error |-> DirectoryServiceError("none", "none", NoError)]

Rejected(err) == [status |-> "rejected", files |-> <<>>, error |-> err]

\* getImageFiles(directoryHandle): a fresh array, then the first
\* _scanDirectory call, which suspends on the root iterator
GetImageFiles ==
  /\ scanState = "idle"
  /\ scanState' = "running"
  /\ imageFiles' = <<>>
  /\ stack' = << [handle |-> 0, basePath |-> <<>>, pos |-> 0] >>
  /\ awaiting' = [op |-> "next", node |-> 0, path |-> <<>>]
  /\ enumCalls' = <<0>>
  /\ UNCHANGED <<fs, scanResult, getFileCalls, fileFailed, enumFailed, rootThrown>>
  /\ UNCHANGED grantVars
  /\ UNCHANGED extVars

\* what follows the end of the innermost _scanDirectory call: the caller's
\* loop goes on, or getImageFiles sorts and returns
ReturnFromScan(files) ==
  IF Len(stack) = 1
    THEN /\ stack' = <<>>
         /\ imageFiles' = DefaultSort(files)
         /\ scanState' = "resolved"
         /\ scanResult' = Resolved(DefaultSort(files))
         /\ awaiting' = [op |-> "none", node |-> 0, path |-> <<>>]
    ELSE /\ stack' = SubSeq(stack, 1, Len(stack) - 1)
         /\ imageFiles' = files
         /\ awaiting' = [op |-> "next", node |-> 0, path |-> <<>>]
         /\ UNCHANGED <<scanState, scanResult>>

\* the iterator of the innermost directory yields its next entry
IterYield ==
  /\ scanState = "running"
  /\ awaiting.op = "next"
  /\ LET ch == Children(fs, Top.handle)
     IN /\ Top.pos < Len(ch)
        /\ LET c == ch[Top.pos + 1]
               name == fs[c].name
               currentPath == CurrentPath(Top.basePath, name)
               advanced == [stack EXCEPT ![Len(stack)].pos = @ + 1]
           IN IF fs[c].kind = "file"
                THEN /\ stack' = advanced
                     /\ IF IsImageFile(name)
                          THEN /\ awaiting' = [op |-> "getFile", node |-> c,
                                               path |-> currentPath]
                               /\ getFileCalls' = Append(getFileCalls, c)
                          ELSE UNCHANGED <<awaiting, getFileCalls>>
                     /\ UNCHANGED enumCalls
                ELSE /\ stack' = Append(advanced,
                                   [handle |-> c, basePath |-> currentPath, pos |-> 0])
                     /\ enumCalls' = Append(enumCalls, c)
                     /\ UNCHANGED <<awaiting, getFileCalls>>
  /\ UNCHANGED <<fs, scanState, imageFiles, scanResult, fileFailed, enumFailed,
                 rootThrown>>
  /\ UNCHANGED grantVars
  /\ UNCHANGED extVars

\* the iterator of the innermost directory is exhausted
IterDone ==
  /\ scanState = "running"
  /\ awaiting.op = "next"
  /\ Top.pos = Len(Children(fs, Top.handle))
  /\ ReturnFromScan(imageFiles)
  /\ UNCHANGED <<fs, getFileCalls, fileFailed, enumFailed, rootThrown, enumCalls>>
  /\ UNCHANGED grantVars
  /\ UNCHANGED extVars

\* IterThrow whose catch block discards what the failed directory had
\* collected
IterThrow_DropsCollected ==
  /\ scanState = "running"
  /\ awaiting.op = "next"
  /\ \E error \in EnumThrown :
       /\ enumFailed' = enumFailed \cup {[dir |-> Top.handle, pos |-> Top.pos]}
       /\ rootThrown' = IF Top.handle = 0 THEN error ELSE rootThrown
       /\ IF ScanCatch(Top.basePath) = "rethrow"
            THEN /\ scanState' = "rejected"
                 /\ scanResult' = Rejected(GetImageFilesCatch(error))
                 /\ stack' = <<>>
                 /\ awaiting' = [op |-> "none", node |-> 0, path |-> <<>>]
                 /\ UNCHANGED imageFiles
            ELSE ReturnFromScan(SelectSeq(imageFiles,
                                  LAMBDA r : Top.handle \notin Ancestors(fs, r.file)))
  /\ UNCHANGED <<fs, getFileCalls, fileFailed, enumCalls>>
  /\ UNCHANGED grantVars
  /\ UNCHANGED extVars

\* the iterator of the innermost directory throws
IterThrow ==
  /\ scanState = "running"
  /\ awaiting.op = "next"
  /\ \E error \in EnumThrown :
       /\ enumFailed' = enumFailed \cup {[dir |-> Top.handle, pos |-> Top.pos]}
       /\ rootThrown' = IF Top.handle = 0 THEN error ELSE rootThrown
       /\ IF ScanCatch(Top.basePath) = "rethrow"
            THEN /\ scanState' = "rejected"
                 /\ scanResult' = Rejected(GetImageFilesCatch(error))
                 /\ stack' = <<>>
                 /\ awaiting' = [op |-> "none", node |-> 0, path |-> <<>>]
                 /\ UNCHANGED imageFiles
            ELSE ReturnFromScan(imageFiles)
  /\ UNCHANGED <<fs, getFileCalls, fileFailed, enumCalls>>
  /\ UNCHANGED grantVars
  /\ UNCHANGED extVars

\* handle.getFile() resolves: the record is pushed
GetFileResolve ==
  /\ scanState = "running"
  /\ awaiting.op = "getFile"
  /\ imageFiles' = Append(imageFiles, ImageFileInfo(fs, awaiting.node, awaiting.path))
  /\ awaiting' = [op |-> "next", node |-> 0, path |-> <<>>]
  /\ UNCHANGED <<fs, scanState, stack, scanResult, getFileCalls,
                 fileFailed, enumFailed, rootThrown, enumCalls>>
  /\ UNCHANGED grantVars
  /\ UNCHANGED extVars

\* GetFileReject without the inner try/catch: the rejection reaches the
\* catch block of getImageFiles
GetFileReject_Aborts ==
  /\ scanState = "running"
  /\ awaiting.op = "getFile"
  /\ \E fileError \in GetFileThrown :
       /\ fileFailed' = fileFailed \cup {awaiting.node}
       /\ scanResult' = Rejected(GetImageFilesCatch(fileError))
  /\ scanState' = "rejected"
  /\ stack' = <<>>
  /\ awaiting' = [op |-> "none", node |-> 0, path |-> <<>>]
  /\ UNCHANGED <<fs, imageFiles, getFileCalls, enumFailed, rootThrown, enumCalls>>
  /\ UNCHANGED grantVars
  /\ UNCHANGED extVars

\* GetFileReject that calls getFile() a second time on the entry before it
\* gives the entry up
GetFileReject_RetriesOnce ==
  /\ scanState = "running"
  /\ awaiting.op = "getFile"
  /\ \E fileError \in GetFileThrown :
       /\ fileFailed' = fileFailed \cup {awaiting.node}
       /\ IF awaiting.node \in fileFailed
            THEN /\ awaiting' = [op |-> "next", node |-> 0, path |-> <<>>]
                 /\ UNCHANGED getFileCalls
            ELSE /\ getFileCalls' = Append(getFileCalls, awaiting.node)
                 /\ UNCHANGED awaiting
  /\ UNCHANGED <<fs, scanState, stack, imageFiles, scanResult,
                 enumFailed, rootThrown, enumCalls>>
  /\ UNCHANGED grantVars
  /\ UNCHANGED extVars

\* handle.getFile() rejects: logged, the loop goes on
GetFileReject ==
  /\ scanState = "running"
  /\ awaiting.op = "getFile"
  /\ \E fileError \in GetFileThrown :
       /\ fileFailed' = fileFailed \cup {awaiting.node}
       /\ awaiting' = [op |-> "next", node |-> 0, path |-> <<>>]
  /\ UNCHANGED <<fs, scanState, stack, imageFiles, scanResult,
                 getFileCalls, enumFailed, rootThrown, enumCalls>>
  /\ UNCHANGED grantVars
  /\ UNCHANGED extVars

----------------------------------------------------------------------------
(* DirectoryService.selectDirectory, one step per await *)

NoOutcome == [kind |-> "none", value |-> "none",
              error |-> DirectoryServiceError("none", "none", NoError)]

Returned(value) == [kind |-> "resolved", value |-> value,
                    error |-> DirectoryServiceError("none", "none", NoError)]

Threw(err) == [kind |-> "rejected", value |-> "none", error |-> err]

IsSupported == supported

GetCurrentDirectoryHandle == directoryHandle

\* what the try block of selectDirectory throws before it reaches the chooser
NotSupportedError ==
  [isServiceError |-> TRUE,
   serviceError |-> DirectoryServiceError("BROWSER_NOT_SUPPORTED",
                                          "MSG_BROWSER_NOT_SUPPORTED", NoError),
   thrown |-> NoError]

\* a rejection of the chooser as the catch block receives it
PlatformError(e) ==
  [isServiceError |-> FALSE,
   serviceError |-> DirectoryServiceError("none", "none", NoError),
   thrown |-> e]

\* SelectDirectoryCatch recognising a cancellation by its message
SelectDirectoryCatch_SniffsMessage(caught) ==
  IF caught.isServiceError
    THEN Threw(caught.serviceError)
  ELSE IF caught.thrown.isError /\ caught.thrown.text = "User cancelled"
    THEN Returned("null")
  ELSE IF caught.thrown.isError /\ caught.thrown.name = "NotAllowedError"
    THEN Threw(DirectoryServiceError("PERMISSION_DENIED", "MSG_PERMISSION_DENIED",
                                     caught.thrown))
  ELSE Threw(DirectoryServiceError("DIRECTORY_ACCESS_DENIED",
                                   "MSG_DIRECTORY_ACCESS_DENIED",
                                   AsError(caught.thrown)))

\* SelectDirectoryCatch without the instanceof DirectoryServiceError branch
SelectDirectoryCatch_RewrapsServiceError(caught) ==
  IF caught.isServiceError
    THEN Threw(DirectoryServiceError("DIRECTORY_ACCESS_DENIED",
                                     "MSG_DIRECTORY_ACCESS_DENIED", NoError))
  ELSE IF caught.thrown.isError /\ caught.thrown.name = "AbortError"
    THEN Returned("null")
  ELSE IF caught.thrown.isError /\ caught.thrown.name = "NotAllowedError"
    THEN Threw(DirectoryServiceError("PERMISSION_DENIED", "MSG_PERMISSION_DENIED",
                                     caught.thrown))
  ELSE Threw(DirectoryServiceError("DIRECTORY_ACCESS_DENIED",
                                   "MSG_DIRECTORY_ACCESS_DENIED",
                                   AsError(caught.thrown)))

\* SelectDirectoryCatch that does not pass the cause to PERMISSION_DENIED
SelectDirectoryCatch_DropsOriginal(caught) ==
  IF caught.isServiceError
    THEN Threw(caught.serviceError)
  ELSE IF caught.thrown.isError /\ caught.thrown.name = "AbortError"
    THEN Returned("null")
  ELSE IF caught.thrown.isError /\ caught.thrown.name = "NotAllowedError"
    THEN Threw(DirectoryServiceError("PERMISSION_DENIED", "MSG_PERMISSION_DENIED",
                                     NoError))
  ELSE Threw(DirectoryServiceError("DIRECTORY_ACCESS_DENIED",
                                   "MSG_DIRECTORY_ACCESS_DENIED",
                                   AsError(caught.thrown)))

\* SelectDirectoryCatch without the instanceof Error test of the AbortError
\* branch
SelectDirectoryCatch_NameOnly(caught) ==
  IF caught.isServiceError
    THEN Threw(caught.serviceError)
  ELSE IF caught.thrown.name = "AbortError"
    THEN Returned("null")
  ELSE IF caught.thrown.isError /\ caught.thrown.name = "NotAllowedError"
    THEN Threw(DirectoryServiceError("PERMISSION_DENIED", "MSG_PERMISSION_DENIED",
                                     caught.thrown))
  ELSE Threw(DirectoryServiceError("DIRECTORY_ACCESS_DENIED",
                                   "MSG_DIRECTORY_ACCESS_DENIED",
                                   AsError(caught.thrown)))

\* the catch block of selectDirectory
SelectDirectoryCatch(caught) ==
  IF caught.isServiceError
    THEN Threw(caught.serviceError)
  ELSE IF caught.thrown.isError /\ caught.thrown.name = "AbortError"
    THEN Returned("null")
  ELSE IF caught.thrown.isError /\ caught.thrown.name = "NotAllowedError"
    THEN Threw(DirectoryServiceError("PERMISSION_DENIED", "MSG_PERMISSION_DENIED",
                                     caught.thrown))
  ELSE Threw(DirectoryServiceError("DIRECTORY_ACCESS_DENIED",
                                   "MSG_DIRECTORY_ACCESS_DENIED",
                                   AsError(caught.thrown)))

\* the environment adds or removes window.showDirectoryPicker
SetSupported ==
  /\ supported' = ~supported
  /\ UNCHANGED <<directoryHandle, pickerPending, pickerCalls, selectCalls,
                 lastOutcome, lastGranted, lastCause>>
  /\ UNCHANGED scanVars
  /\ UNCHANGED extVars

\* what a selectDirectory() call does to its service up to its first await
SelectDirectoryCall ==
  /\ selectCalls < MaxSelectCalls
  /\ pickerPending < MaxPending
  /\ selectCalls' = selectCalls + 1
  /\ IF ~IsSupported
       THEN /\ lastOutcome' = SelectDirectoryCatch(NotSupportedError)
            /\ lastCause' = NoError
            /\ UNCHANGED <<pickerPending, pickerCalls>>
       ELSE /\ pickerCalls' = pickerCalls + 1
            /\ pickerPending' = pickerPending + 1
            /\ UNCHANGED <<lastOutcome, lastCause>>
  /\ UNCHANGED <<supported, directoryHandle, lastGranted>>

\* selectDirectory() up to its first await
SelectDirectory ==
  /\ SelectDirectoryCall
  /\ UNCHANGED scanVars
  /\ UNCHANGED extVars

\* what the call does to its service when the chooser resolves with h
PickerResolveCall(h) ==
  /\ pickerPending > 0
  /\ directoryHandle' = h
  /\ lastOutcome' = Returned(HandleName(h))
  /\ lastGranted' = h
  /\ lastCause' = NoError
  /\ pickerPending' = pickerPending - 1
  /\ UNCHANGED <<supported, pickerCalls, selectCalls>>

\* the chooser resolves with a handle: it is stored and its name returned
PickerResolve ==
  /\ \E h \in Handles : PickerResolveCall(h)
  /\ UNCHANGED scanVars
  /\ UNCHANGED extVars

\* what the call does to its service when the chooser rejects with e
PickerRejectCall(e) ==
  /\ pickerPending > 0
  /\ lastOutcome' = SelectDirectoryCatch(PlatformError(e))
  /\ lastCause' = e
  /\ pickerPending' = pickerPending - 1
  /\ UNCHANGED <<supported, directoryHandle, pickerCalls, selectCalls, lastGranted>>

\* PickerReject that forgets the stored handle
PickerReject_ClearsHandle ==
  /\ pickerPending > 0
  /\ \E e \in PickerThrown :
       /\ lastOutcome' = SelectDirectoryCatch(PlatformError(e))
       /\ lastCause' = e
  /\ directoryHandle' = "null"
  /\ pickerPending' = pickerPending - 1
  /\ UNCHANGED <<supported, pickerCalls, selectCalls, lastGranted>>
  /\ UNCHANGED scanVars
  /\ UNCHANGED extVars

\* the chooser rejects: the catch block decides
PickerReject ==
  /\ \E e \in PickerThrown : PickerRejectCall(e)
  /\ UNCHANGED scanVars
  /\ UNCHANGED extVars

----------------------------------------------------------------------------
(* DirectoryService.watchDirectory and unwatchDirectory *)

NoWatch == [op |-> "none", path |-> "none", kind |-> "none",
            error |-> DirectoryServiceError("none", "none", NoError)]

\* the directoryPath arguments tried
WatchPaths == {"", "/test/path"}

WatchThrew(op, path, err) == [op |-> op, path |-> path, kind |-> "threw", error |-> err]

\* WatchDirectory as an empty stub that returns
WatchDirectory_Returns ==
  /\ \E path \in WatchPaths :
       watchOutcome' = [op |-> "watchDirectory", path |-> path, kind |-> "returned",
                        error |-> DirectoryServiceError("none", "none", NoError)]
  /\ UNCHANGED <<devVars, uiVars, serverVars>>
  /\ UNCHANGED grantVars
  /\ UNCHANGED scanVars

\* watchDirectory(directoryPath, callback): throws whatever the arguments
WatchDirectory ==
  /\ \E path \in WatchPaths :
       watchOutcome' = WatchThrew("watchDirectory", path,
                          DirectoryServiceError("BROWSER_NOT_SUPPORTED",
                                                "MSG_WATCH_NOT_SUPPORTED", NoError))
  /\ UNCHANGED <<devVars, uiVars, serverVars>>
  /\ UNCHANGED grantVars
  /\ UNCHANGED scanVars

\* unwatchDirectory(directoryPath): throws whatever the argument
UnwatchDirectory ==
  /\ \E path \in WatchPaths :
       watchOutcome' = WatchThrew("unwatchDirectory", path,
                          DirectoryServiceError("BROWSER_NOT_SUPPORTED",
                                                "MSG_WATCH_NOT_SUPPORTED", NoError))
  /\ UNCHANGED <<devVars, uiVars, serverVars>>
  /\ UNCHANGED grantVars
  /\ UNCHANGED scanVars

----------------------------------------------------------------------------
(* DirectorySelector, DirectoryBrowser and ImageFileList *)

\* The directory behind each handle the chooser can grant.
\* photos: b.jpg (time 1) and a/b.jpg (time 2); scans: c.PnG (time 1)
HandleTree(h) ==
  IF h = "h1"
    THEN << [parent |-> 0, kind |-> "file", name |-> <<"b", ".", "j", "p", "g">>,
             lastModified |-> 1],
            [parent |-> 0, kind |-> "directory", name |-> <<"a">>, lastModified |-> 0],
            [parent |-> 2, kind |-> "file", name |-> <<"b", ".", "j", "p", "g">>,
             lastModified |-> 2] >>
    ELSE << [parent |-> 0, kind |-> "file", name |-> <<"c", ".", "P", "n", "G">>,
             lastModified |-> 1] >>

SortOptions == {"name", "createdDate"}

\* selectedFile = null
NoFile == [dir |-> "null", entry |-> 0, name |-> <<>>]

\* no request to /api/images/file yet
NoFileResponse == [url |-> <<>>, status |-> 0, served |-> <<>>]

\* getImageFiles(directoryHandle) called on the directory t: as GetImageFiles,
\* for a call that is not the first of its service
BeginScan(t) ==
  /\ fs' = t
  /\ scanState' = "running"
  /\ imageFiles' = <<>>
  /\ stack' = << [handle |-> 0, basePath |-> <<>>, pos |-> 0] >>
  /\ awaiting' = [op |-> "next", node |-> 0, path |-> <<>>]
  /\ scanResult' = NoResult
  /\ getFileCalls' = <<>>
  /\ fileFailed' = {}
  /\ enumFailed' = {}
  /\ rootThrown' = NoError
  /\ enumCalls' = <<0>>

\* directoryService.getCurrentDirectoryHandle() as DirectoryBrowser reads it,
\* the selector's service holding h: its own service, or the selector's if the
\* two components were handed one object
BrowserServiceHandle(h) == IF sharedService THEN h ELSE browserHandle

\* BrowserHandleDirectorySelect without setImageFiles([]) before the scan
BrowserHandleDirectorySelect_KeepsListing(directoryPath, h) ==
  /\ selectedDirectory' = directoryPath
  /\ IF BrowserServiceHandle(h) = "null"
       THEN /\ browserError' = "MSG_NO_HANDLE"
            /\ browserImageFiles' = <<>>
            /\ browserIsLoading' = FALSE
            /\ UNCHANGED scanning
            /\ UNCHANGED scanVars
       ELSE /\ browserError' = "null"
            /\ UNCHANGED browserImageFiles
            /\ browserIsLoading' = TRUE
            /\ scanning' = BrowserServiceHandle(h)
            /\ BeginScan(HandleTree(BrowserServiceHandle(h)))
  /\ UNCHANGED <<sortBy, sortOrder, browserHandle, sharedService>>

\* DirectoryBrowser.handleDirectorySelect(directoryPath) up to its first
\* await, or to its end if it does not reach one
BrowserHandleDirectorySelect(directoryPath, h) ==
  /\ selectedDirectory' = directoryPath
  /\ IF BrowserServiceHandle(h) = "null"
       THEN /\ browserError' = "MSG_NO_HANDLE"
            /\ browserImageFiles' = <<>>
            /\ browserIsLoading' = FALSE
            /\ UNCHANGED scanning
            /\ UNCHANGED scanVars
       ELSE /\ browserError' = "null"
            /\ browserImageFiles' = <<>>
            /\ browserIsLoading' = TRUE
            /\ scanning' = BrowserServiceHandle(h)
            /\ BeginScan(HandleTree(BrowserServiceHandle(h)))
  /\ UNCHANGED <<sortBy, sortOrder, browserHandle, sharedService>>

\* SelectorClick without the test of disabled and isLoading
SelectorClick_Unguarded ==
  /\ SelectDirectoryCall
  /\ IF ~IsSupported
       THEN /\ selectorError' = SelectDirectoryCatch(NotSupportedError).error.message
            /\ selectorIsLoading' = FALSE
       ELSE /\ selectorError' = "null"
            /\ selectorIsLoading' = TRUE
  /\ UNCHANGED <<sharedService, selectedDirectory, browserImageFiles, browserIsLoading,
                 browserError, sortBy, sortOrder, browserHandle, scanning>>
  /\ UNCHANGED <<watchOutcome, devMode, currentDirectory, selectedFile, targetDir,
                 fileResponse>>
  /\ UNCHANGED scanVars

\* a click on the select button: DirectorySelector.handleDirectorySelect up
\* to the await of selectDirectory, or to its end if the call throws at once
SelectorClick ==
  /\ ~(browserIsLoading \/ selectorIsLoading)
  /\ SelectDirectoryCall
  /\ IF ~IsSupported
       THEN /\ selectorError' = SelectDirectoryCatch(NotSupportedError).error.message
            /\ selectorIsLoading' = FALSE
       ELSE /\ selectorError' = "null"
            /\ selectorIsLoading' = TRUE
  /\ UNCHANGED <<sharedService, selectedDirectory, browserImageFiles, browserIsLoading,
                 browserError, sortBy, sortOrder, browserHandle, scanning>>
  /\ UNCHANGED <<watchOutcome, devMode, currentDirectory, selectedFile, targetDir,
                 fileResponse>>
  /\ UNCHANGED scanVars

\* the chooser resolves: selectDirectory returns the name, the selector calls
\* onDirectorySelect and ends
SelectorPickerResolve ==
  /\ selectorIsLoading
  /\ \E h \in Handles :
       /\ PickerResolveCall(h)
       /\ BrowserHandleDirectorySelect(HandleName(h), h)
  /\ selectorIsLoading' = FALSE
  /\ UNCHANGED selectorError
  /\ UNCHANGED <<watchOutcome, devMode, currentDirectory, selectedFile, targetDir,
                 fileResponse>>

\* SelectorPickerReject that treats the null of a cancellation as a failure
SelectorPickerReject_ReportsCancel ==
  /\ selectorIsLoading
  /\ \E e \in PickerThrown :
       /\ PickerRejectCall(e)
       /\ selectorError' =
            IF SelectDirectoryCatch(PlatformError(e)).kind = "rejected"
              THEN SelectDirectoryCatch(PlatformError(e)).error.message
              ELSE "MSG_UNEXPECTED"
  /\ selectorIsLoading' = FALSE
  /\ UNCHANGED <<sharedService, selectedDirectory, browserImageFiles, browserIsLoading,
                 browserError, sortBy, sortOrder, browserHandle, scanning>>
  /\ UNCHANGED <<watchOutcome, devMode, currentDirectory, selectedFile, targetDir,
                 fileResponse>>
  /\ UNCHANGED scanVars

\* the chooser rejects: selectDirectory returns null or throws, the selector
\* shows the message of what it threw and ends
SelectorPickerReject ==
  /\ selectorIsLoading
  /\ \E e \in PickerThrown :
       /\ PickerRejectCall(e)
       /\ selectorError' =
            IF SelectDirectoryCatch(PlatformError(e)).kind = "rejected"
              THEN SelectDirectoryCatch(PlatformError(e)).error.message
              ELSE selectorError
  /\ selectorIsLoading' = FALSE
  /\ UNCHANGED <<sharedService, selectedDirectory, browserImageFiles, browserIsLoading,
                 browserError, sortBy, sortOrder, browserHandle, scanning>>
  /\ UNCHANGED <<watchOutcome, devMode, currentDirectory, selectedFile, targetDir,
                 fileResponse>>
  /\ UNCHANGED scanVars

\* BrowserAfterGetImageFiles whose finally block runs on success only
BrowserAfterGetImageFiles_NoFinally ==
  /\ scanning # "none"
  /\ scanState \in {"resolved", "rejected"}
  /\ IF scanResult.status = "resolved"
       THEN /\ browserImageFiles' = scanResult.files
            /\ browserError' = "null"
            /\ browserIsLoading' = FALSE
       ELSE /\ browserError' = scanResult.error.message
            /\ browserImageFiles' = <<>>
            /\ UNCHANGED browserIsLoading
  /\ scanning' = "none"
  /\ UNCHANGED <<sharedService, selectorIsLoading, selectorError, selectedDirectory,
                 sortBy, sortOrder, browserHandle>>
  /\ UNCHANGED <<watchOutcome, devMode, currentDirectory, selectedFile, targetDir,
                 fileResponse>>
  /\ UNCHANGED grantVars
  /\ UNCHANGED scanVars

\* DirectoryBrowser.handleDirectorySelect after await getImageFiles
BrowserAfterGetImageFiles ==
  /\ scanning # "none"
  /\ scanState \in {"resolved", "rejected"}
  /\ IF scanResult.status = "resolved"
       THEN /\ browserImageFiles' = scanResult.files
            /\ browserError' = "null"
       ELSE /\ browserError' = scanResult.error.message
            /\ browserImageFiles' = <<>>
  /\ browserIsLoading' = FALSE
  /\ scanning' = "none"
  /\ UNCHANGED <<sharedService, selectorIsLoading, selectorError, selectedDirectory,
                 sortBy, sortOrder, browserHandle>>
  /\ UNCHANGED <<watchOutcome, devMode, currentDirectory, selectedFile, targetDir,
                 fileResponse>>
  /\ UNCHANGED grantVars
  /\ UNCHANGED scanVars

OppositeOrder(order) == IF order = "asc" THEN "desc" ELSE "asc"

\* HandleSortClick that keeps the direction when the key changes
HandleSortClick_KeepsDirection(currentSortBy, currentSortOrder, newSortBy) ==
  IF currentSortBy = newSortBy
    THEN [sortBy |-> newSortBy, sortOrder |-> OppositeOrder(currentSortOrder)]
    ELSE [sortBy |-> newSortBy, sortOrder |-> currentSortOrder]

\* ImageFileList.handleSortClick(newSortBy): the arguments of onSortChange
HandleSortClick(currentSortBy, currentSortOrder, newSortBy) ==
  IF currentSortBy = newSortBy
    THEN [sortBy |-> newSortBy,
          sortOrder |-> IF currentSortOrder = "asc" THEN "desc" ELSE "asc"]
    ELSE [sortBy |-> newSortBy, sortOrder |-> "asc"]

\* the characters in the order a collator ranks them at the first level,
\* upper and lower case together
CollationOrder == <<".", "/", "a", "b", "c", "e", "f", "g", "i", "j", "n", "p", "s",
                    "t", "w", "x">>

\* first-level weight of a character: that of its base letter
PrimaryWeight(c) ==
  LET base == LowerChar(c)[1]
  IN IF \E k \in 1..Len(CollationOrder) : CollationOrder[k] = base
       THEN CHOOSE k \in 1..Len(CollationOrder) : CollationOrder[k] = base
       ELSE Len(CollationOrder) + 1

\* third-level weight: a lower-case letter before its upper-case form
CaseWeight(c) == IF LowerChar(c) = <<c>> THEN 0 ELSE 1

\* lexicographic comparison of two sequences of weights: -1, 0 or 1
RECURSIVE CompareWeights(_, _)
CompareWeights(wa, wb) ==
  IF wa = <<>> /\ wb = <<>> THEN 0
  ELSE IF wa = <<>> THEN -1
  ELSE IF wb = <<>> THEN 1
  ELSE IF Head(wa) < Head(wb) THEN -1
  ELSE IF Head(wa) > Head(wb) THEN 1
  ELSE CompareWeights(Tail(wa), Tail(wb))

\* a.localeCompare(b, 'ja-JP'): base letters first, case only to break a tie
LocaleCompare(a, b) ==
  LET primary == CompareWeights([i \in 1..Len(a) |-> PrimaryWeight(a[i])],
                                [i \in 1..Len(b) |-> PrimaryWeight(b[i])])
  IN IF primary # 0 THEN primary
     ELSE CompareWeights([i \in 1..Len(a) |-> CaseWeight(a[i])],
                         [i \in 1..Len(b) |-> CaseWeight(b[i])])

\* the switch of the comparator of sortedFiles
Comparison(a, b, key) ==
  IF key = "name" THEN LocaleCompare(a.name, b.name)
  ELSE IF key = "createdDate" THEN a.createdDate - b.createdDate
  ELSE 0

\* the comparator of sortedFiles
SortComparator(a, b, key, order) ==
  IF order = "asc" THEN Comparison(a, b, key) ELSE 0 - Comparison(a, b, key)

\* Array.prototype.sort with SortComparator: a stable sort
RECURSIVE InsertBy(_, _, _, _)
InsertBy(sorted, x, key, order) ==
  IF sorted = <<>> THEN <<x>>
  ELSE LET last == sorted[Len(sorted)]
       IN IF SortComparator(last, x, key, order) <= 0
            THEN Append(sorted, x)
            ELSE Append(InsertBy(SubSeq(sorted, 1, Len(sorted) - 1), x, key, order), last)

RECURSIVE StableSortBy(_, _, _)
StableSortBy(arr, key, order) ==
  IF arr = <<>> THEN <<>>
  ELSE InsertBy(StableSortBy(SubSeq(arr, 1, Len(arr) - 1), key, order),
                arr[Len(arr)], key, order)

Reverse(arr) == [k \in 1..Len(arr) |-> arr[Len(arr) + 1 - k]]

\* SortedFilesOf that sorts ascending and reverses the result for desc
SortedFilesOf_ReversesAscending(files, key, order) ==
  IF Len(files) = 0 THEN <<>>
  ELSE IF order = "asc" THEN StableSortBy(files, key, "asc")
  ELSE Reverse(StableSortBy(files, key, "asc"))

\* the useMemo of sortedFiles for a listing and a sort
SortedFilesOf(files, key, order) ==
  IF Len(files) = 0 THEN <<>>
  ELSE StableSortBy(files, key, order)

\* DirectoryBrowser.sortedFiles
SortedFiles == SortedFilesOf(browserImageFiles, sortBy, sortOrder)

\* ImageFileList renders the sort buttons
SortButtonsRendered ==
  /\ browserError = "null"
  /\ ~browserIsLoading
  /\ Len(browserImageFiles) # 0

\* a click on a sort button: handleSortClick, then
\* DirectoryBrowser.handleSortChange
SortClick ==
  /\ SortButtonsRendered
  /\ \E newSortBy \in SortOptions :
       /\ sortBy' = HandleSortClick(sortBy, sortOrder, newSortBy).sortBy
       /\ sortOrder' = HandleSortClick(sortBy, sortOrder, newSortBy).sortOrder
  /\ UNCHANGED <<sharedService, selectorIsLoading, selectorError, selectedDirectory,
                 browserImageFiles, browserIsLoading, browserError, browserHandle,
                 scanning>>
  /\ UNCHANGED <<watchOutcome, devMode, currentDirectory, selectedFile, targetDir,
                 fileResponse>>
  /\ UNCHANGED grantVars
  /\ UNCHANGED scanVars

\* the File object of a record of the held listing: an entry of the
\* directory selected last
FileOf(fileInfo) == [dir |-> lastGranted, entry |-> fileInfo.file, name |-> fileInfo.name]

\* ImageFileList.isFileSelected(fileInfo)
IsFileSelected(fileInfo) ==
  selectedFile # NoFile /\ selectedFile.name = FileOf(fileInfo).name

\* a click on a row of the list: handleFileClick, DirectoryBrowser's
\* handleFileSelect, and the parent making that file its selectedFile
FileClick ==
  /\ SortButtonsRendered
  /\ \E k \in 1..Len(SortedFiles) : selectedFile' = FileOf(SortedFiles[k])
  /\ UNCHANGED <<sharedService, selectorIsLoading, selectorError, selectedDirectory,
                 browserImageFiles, browserIsLoading, browserError, sortBy, sortOrder,
                 browserHandle, scanning>>
  /\ UNCHANGED <<watchOutcome, devMode, currentDirectory, targetDir, fileResponse>>
  /\ UNCHANGED grantVars
  /\ UNCHANGED scanVars

\* a click on the close button of the browser's error banner
BrowserClearError ==
  /\ browserError # "null"
  /\ ~browserIsLoading
  /\ browserError' = "null"
  /\ UNCHANGED <<sharedService, selectorIsLoading, selectorError, selectedDirectory,
                 browserImageFiles, browserIsLoading, sortBy, sortOrder, browserHandle,
                 scanning>>
  /\ UNCHANGED <<watchOutcome, devMode, currentDirectory, selectedFile, targetDir,
                 fileResponse>>
  /\ UNCHANGED grantVars
  /\ UNCHANGED scanVars

\* a click on the close button of the selector's error message
SelectorClearError ==
  /\ selectorError # "null"
  /\ selectorError' = "null"
  /\ UNCHANGED <<sharedService, selectorIsLoading, selectedDirectory,
                 browserImageFiles, browserIsLoading, browserError, sortBy, sortOrder,
                 browserHandle, scanning>>
  /\ UNCHANGED <<watchOutcome, devMode, currentDirectory, selectedFile, targetDir,
                 fileResponse>>
  /\ UNCHANGED grantVars
  /\ UNCHANGED scanVars

----------------------------------------------------------------------------
(* The development-capable DirectoryService and the list API of the        *)
(* development server                                                      *)

DevDirectory == "D:\\tools\\StabilityMatrix\\Data\\Images\\Text2Img\\2025-09-01\\"

DevDirectoryName == "Text2Img/2025-09-01"

\* the sequence of characters as one string
RECURSIVE Join(_)
Join(cs) == IF cs = <<>> THEN "" ELSE Head(cs) \o Join(Tail(cs))

\* encodeURIComponent on one character: U+0130 is the UTF-8 bytes C4 B0
EncodeChar(c) == IF c = "U+0130" THEN "%C4%B0" ELSE c

EncodeURIComponent(s) == Join([i \in 1..Len(s) |-> EncodeChar(s[i])])

\* config.supportedExtensions of the development server
ServerSupportedExtensions == << <<".", "j", "p", "g">>,
                                <<".", "j", "p", "e", "g">>,
                                <<".", "p", "n", "g">>,
                                <<".", "g", "i", "f">>,
                                <<".", "w", "e", "b", "p">> >>

\* the extension filter of GET /api/images
ServerIsImageFile(fileName) ==
  LET ext == Substring(ToLowerCase(fileName), LastIndexOf(fileName, "."))
  IN Includes(ServerSupportedExtensions, ext)

\* one element of the files array of the response
ApiFileData(t, c) ==
  [ entry |-> c,
    name |-> t[c].name,
    lastModified |-> t[c].lastModified,
    url |-> "/api/images/file/" \o EncodeURIComponent(t[c].name) ]

\* GET /api/images: the files of the directory itself that pass the filter,
\* in the order readdirSync lists them
ApiFiles(t) ==
  LET listed == SelectSeq(Children(t, 0),
                          LAMBDA c : t[c].kind = "file" /\ ServerIsImageFile(t[c].name))
  IN [i \in 1..Len(listed) |-> ApiFileData(t, listed[i])]

\* the record _getImageFilesFromAPI makes of one element
ApiImageFileInfo(fileData) ==
  [ file |-> fileData.entry,
    name |-> fileData.name,
    lastModified |-> fileData.lastModified,
    createdDate |-> fileData.lastModified,
    path |-> fileData.name,
    thumbnailUrl |-> fileData.url ]

\* the catch block of _getImageFilesFromAPI, as a thrown value
ApiCatch(error) ==
  [isError |-> TRUE, name |-> "DirectoryServiceError", text |-> "MSG_API_FETCH_FAILED"]

\* what fetch('/api/images') can reject with
FetchThrown == { [isError |-> TRUE, name |-> "TypeError", text |-> "Failed to fetch"] }

\* the status of a response that is not ok
ApiErrorStatus == {"404", "500"}

\* the value getImageFiles throws when it is given no handle
NoHandleGiven ==
  [isError |-> TRUE, name |-> "DirectoryServiceError", text |-> "MSG_NO_HANDLE_GIVEN"]

\* selectDirectory() of the development-capable service in a development
\* build: the fixed directory, no chooser; in a production build the call
\* continues as SelectDirectory
DevSelectDirectory ==
  /\ devMode
  /\ selectCalls < MaxSelectCalls
  /\ currentDirectory' = DevDirectory
  /\ selectCalls' = selectCalls + 1
  /\ lastOutcome' = Returned(DevDirectoryName)
  /\ lastCause' = NoError
  /\ UNCHANGED <<supported, directoryHandle, pickerPending, pickerCalls, lastGranted>>
  /\ UNCHANGED <<devMode, watchOutcome>>
  /\ UNCHANGED <<uiVars, serverVars>>
  /\ UNCHANGED scanVars

\* getImageFiles(directoryHandle?) of the development-capable service up to
\* its first await: the API in development once a directory is selected,
\* else the scan of the handle
DevGetImageFiles ==
  /\ scanState # "running"
  /\ \E given \in BOOLEAN :
       IF devMode /\ currentDirectory # "null"
         THEN /\ scanState' = "running"
              /\ awaiting' = [op |-> "fetch", node |-> 0, path |-> <<>>]
              /\ imageFiles' = <<>>
              /\ stack' = <<>>
              /\ scanResult' = NoResult
              /\ getFileCalls' = <<>>
              /\ fileFailed' = {}
              /\ enumFailed' = {}
              /\ rootThrown' = NoError
              /\ enumCalls' = <<>>
              /\ UNCHANGED fs
       ELSE IF ~given
         THEN /\ scanState' = "rejected"
              /\ scanResult' = Rejected(GetImageFilesCatch(NoHandleGiven))
              /\ awaiting' = [op |-> "none", node |-> 0, path |-> <<>>]
              /\ imageFiles' = <<>>
              /\ stack' = <<>>
              /\ getFileCalls' = <<>>
              /\ fileFailed' = {}
              /\ enumFailed' = {}
              /\ rootThrown' = NoError
              /\ enumCalls' = <<>>
              /\ UNCHANGED fs
       ELSE BeginScan(fs)
  /\ UNCHANGED grantVars
  /\ UNCHANGED extVars

\* the API answers with the list: one record per element, in the order of
\* the response
ApiRespondOk ==
  /\ scanState = "running"
  /\ awaiting.op = "fetch"
  /\ LET files == [i \in 1..Len(ApiFiles(fs)) |-> ApiImageFileInfo(ApiFiles(fs)[i])]
     IN /\ scanResult' = Resolved(files)
        /\ imageFiles' = files
  /\ scanState' = "resolved"
  /\ awaiting' = [op |-> "none", node |-> 0, path |-> <<>>]
  /\ UNCHANGED <<fs, stack, getFileCalls, fileFailed, enumFailed, rootThrown, enumCalls>>
  /\ UNCHANGED grantVars
  /\ UNCHANGED extVars

\* the API answers 404 or 500, or fetch rejects: both catch blocks wrap the
\* error
ApiFail ==
  /\ scanState = "running"
  /\ awaiting.op = "fetch"
  /\ \E error \in FetchThrown \cup
                   { [isError |-> TRUE, name |-> "Error",
                      text |-> "API request failed: " \o status] :
                     status \in ApiErrorStatus } :
       scanResult' = Rejected(GetImageFilesCatch(ApiCatch(error)))
  /\ scanState' = "rejected"
  /\ awaiting' = [op |-> "none", node |-> 0, path |-> <<>>]
  /\ UNCHANGED <<fs, stack, imageFiles, getFileCalls, fileFailed, enumFailed, rootThrown, enumCalls>>
  /\ UNCHANGED grantVars
  /\ UNCHANGED extVars

----------------------------------------------------------------------------
(* The file endpoint of the development server: GET /api/images/file/{name} *)

\* What findAvailableDirectory() can return: '' (no candidate exists), the
\* directory /d written as '/d', as '/d/' and, relative to the working
\* directory /, as './d'
ServerDirs == { <<>>, <<"/", "d">>, <<"/", "d", "/">>, <<".", "/", "d">> }

\* the working directory of the server process, as path segments
Cwd == <<>>

\* The disk of the server, every path as its segments: the files /d/f,
\* /dx/f and /e/f, and the directories that hold them
ServerFiles == { << <<"d">>, <<"f">> >>, << <<"d", "x">>, <<"f">> >>,
                 << <<"e">>, <<"f">> >> }

ServerDirectories == { <<>>, << <<"d">> >>, << <<"d", "x">> >>, << <<"e">> >> }

\* the segments request names are built from: .., d, dx, e, f
UrlSegments == { <<".", ".">>, <<"d">>, <<"d", "x">>, <<"e">>, <<"f">> }

\* how a client writes the '/' between two segments
UrlSeparators == { "/", "%2F" }

RECURSIVE SegmentLists(_)
SegmentLists(n) ==
  IF n = 0 THEN {<<>>}
  ELSE SegmentLists(n - 1) \cup
       { Append(l, g) : l \in {v \in SegmentLists(n - 1) : Len(v) = n - 1},
                        g \in UrlSegments }

\* req.url for the segments: '/' and the segments with sep between them
RECURSIVE RequestUrl(_, _)
RequestUrl(segs, sep) ==
  IF segs = <<>> THEN <<"/">>
  ELSE IF Len(segs) = 1 THEN <<"/">> \o segs[1]
  ELSE RequestUrl(SubSeq(segs, 1, Len(segs) - 1), sep) \o <<sep>> \o segs[Len(segs)]

DecodeChar(c) == IF c = "%2F" THEN "/" ELSE c

DecodeURIComponent(s) == [i \in 1..Len(s) |-> DecodeChar(s[i])]

StartsWith(s, prefix) ==
  Len(prefix) <= Len(s) /\ SubSeq(s, 1, Len(prefix)) = prefix

\* s.split('/')
RECURSIVE SplitPath(_)
SplitPath(s) ==
  IF \A i \in 1..Len(s) : s[i] # "/" THEN <<s>>
  ELSE LET i == CHOOSE k \in 1..Len(s) : s[k] = "/" /\ \A j \in 1..(k - 1) : s[j] # "/"
       IN <<SubSeq(s, 1, i - 1)>> \o SplitPath(SubSeq(s, i + 1, Len(s)))

\* path normalisation: '' and '.' are dropped, '..' removes the segment
\* before it, the root has no parent
RECURSIVE NormalizeInto(_, _)
NormalizeInto(acc, segs) ==
  IF segs = <<>> THEN acc
  ELSE LET g == Head(segs)
       IN IF g = <<>> \/ g = <<".">> THEN NormalizeInto(acc, Tail(segs))
          ELSE IF g = <<".", ".">>
            THEN NormalizeInto(IF acc = <<>> THEN acc ELSE SubSeq(acc, 1, Len(acc) - 1),
                               Tail(segs))
          ELSE NormalizeInto(Append(acc, g), Tail(segs))

IsAbsolute(p) == p # <<>> /\ p[1] = "/"

\* path.resolve(dir, name), as segments: the rightmost absolute argument
\* and what follows it, on the working directory if none is absolute
Resolve(dir, name) ==
  IF IsAbsolute(name) THEN NormalizeInto(<<>>, SplitPath(name))
  ELSE IF IsAbsolute(dir) THEN NormalizeInto(<<>>, SplitPath(dir) \o SplitPath(name))
  ELSE NormalizeInto(Cwd, SplitPath(dir) \o SplitPath(name))

\* the string of an absolute path: no '/' at the end, '/' for the root
RECURSIVE PathString(_)
PathString(segs) ==
  IF segs = <<>> THEN <<"/">>
  ELSE IF Len(segs) = 1 THEN <<"/">> \o segs[1]
  ELSE PathString(SubSeq(segs, 1, Len(segs) - 1)) \o <<"/">> \o segs[Len(segs)]

\* fileName of the handler: the URL without its first '/', decoded
FileNameOf(url) ==
  DecodeURIComponent(IF StartsWith(url, <<"/">>) THEN SubSeq(url, 2, Len(url)) ELSE url)

\* the '/api/images/file' handler for a GET of url, dir being the directory
\* findAvailableDirectory() returned
FileApiRespond(dir, url) ==
  LET fileName == FileNameOf(url)
      filePath == Resolve(dir, fileName)
  IN IF fileName = <<>> THEN [url |-> url, status |-> 400, served |-> <<>>]
     ELSE IF dir = <<>> THEN [url |-> url, status |-> 404, served |-> <<>>]
     ELSE IF ~StartsWith(PathString(filePath), dir)
       THEN [url |-> url, status |-> 403, served |-> <<>>]
     ELSE IF filePath \notin ServerFiles \cup ServerDirectories
       THEN [url |-> url, status |-> 404, served |-> <<>>]
     ELSE IF filePath \notin ServerFiles
       THEN [url |-> url, status |-> 404, served |-> <<>>]
     ELSE [url |-> url, status |-> 200, served |-> PathString(filePath)]

\* the URLs a client requests
RequestUrls ==
  { RequestUrl(segs, sep) : segs \in SegmentLists(MaxUrlSegments), sep \in UrlSeparators }

\* the answers of the handler, by target directory
FileApiResponses ==
  [dir \in ServerDirs |-> { FileApiRespond(dir, url) : url \in RequestUrls }]

\* a GET request to /api/images/file and its answer; the handler keeps
\* nothing from one request to the next
FileApiGet ==
  /\ fileResponse' \in FileApiResponses[targetDir]
  /\ UNCHANGED targetDir
  /\ UNCHANGED <<watchOutcome, devVars, uiVars>>
  /\ UNCHANGED grantVars
  /\ UNCHANGED scanVars

----------------------------------------------------------------------------
(* Initial states and specifications *)

GrantIdle ==
  /\ supported = TRUE
  /\ directoryHandle = "null"
  /\ pickerPending = 0
  /\ pickerCalls = 0
  /\ selectCalls = 0
  /\ lastOutcome = NoOutcome
  /\ lastGranted = "null"
  /\ lastCause = NoError

ScanIdle(t) ==
  /\ fs = t
  /\ scanState = "idle"
  /\ stack = <<>>
  /\ awaiting = [op |-> "none", node |-> 0, path |-> <<>>]
  /\ imageFiles = <<>>
  /\ scanResult = NoResult
  /\ getFileCalls = <<>>
  /\ fileFailed = {}
  /\ enumFailed = {}
  /\ rootThrown = NoError
  /\ enumCalls = <<>>

\* the state of DirectorySelector and DirectoryBrowser after the first render
BrowserIdle(shared) ==
  /\ sharedService = shared
  /\ selectorIsLoading = FALSE
  /\ selectorError = "null"
  /\ selectedDirectory = "null"
  /\ browserImageFiles = <<>>
  /\ browserIsLoading = FALSE
  /\ browserError = "null"
  /\ sortBy = "createdDate"
  /\ sortOrder = "desc"
  /\ browserHandle = "null"
  /\ scanning = "none"
  /\ selectedFile = NoFile

DevIdle(dev) ==
  /\ devMode = dev
  /\ currentDirectory = "null"

\* the development server before its first request, dir being what
\* findAvailableDirectory() returns
ServerIdle(dir) ==
  /\ targetDir = dir
  /\ fileResponse = NoFileResponse

ExtIdle ==
  /\ watchOutcome = NoWatch
  /\ DevIdle(FALSE)
  /\ BrowserIdle(FALSE)
  /\ ServerIdle(<<>>)

InitScan == GrantIdle /\ ExtIdle /\ \E t \in Trees(MaxNodes) : ScanIdle(t)

NextScan ==
  \/ GetImageFiles
  \/ IterYield
  \/ IterDone
  \/ IterThrow
  \/ GetFileResolve
  \/ GetFileReject

SpecScan == InitScan /\ [][NextScan]_vars

\* the scan when every platform call settles: a suspended await is resumed
InitScanFair == GrantIdle /\ ExtIdle /\ \E t \in Trees(MaxFairNodes) : ScanIdle(t)

SpecScanFair == InitScanFair /\ [][NextScan]_vars /\ WF_vars(NextScan)

\* the scan on the trees whose enumeration orders are compared
InitOrder == GrantIdle /\ ExtIdle /\ \E t \in Trees(MaxOrderNodes) : ScanIdle(t)

SpecOrder == InitOrder /\ [][NextScan]_vars

InitGrant == GrantIdle /\ ExtIdle /\ ScanIdle(<<>>)

NextGrant ==
  \/ SetSupported
  \/ SelectDirectory
  \/ PickerResolve
  \/ PickerReject
  \/ WatchDirectory
  \/ UnwatchDirectory

SpecGrant == InitGrant /\ [][NextGrant]_vars

InitBrowser ==
  /\ GrantIdle
  /\ ScanIdle(<<>>)
  /\ watchOutcome = NoWatch
  /\ DevIdle(FALSE)
  /\ ServerIdle(<<>>)
  /\ \E shared \in BOOLEAN : BrowserIdle(shared)

NextBrowser ==
  \/ SetSupported
  \/ SelectorClick
  \/ SelectorPickerResolve
  \/ SelectorPickerReject
  \/ IterYield
  \/ IterDone
  \/ IterThrow
  \/ GetFileResolve
  \/ GetFileReject
  \/ BrowserAfterGetImageFiles
  \/ SortClick
  \/ FileClick
  \/ BrowserClearError
  \/ SelectorClearError

SpecBrowser == InitBrowser /\ [][NextBrowser]_vars

InitDev ==
  /\ GrantIdle
  /\ watchOutcome = NoWatch
  /\ BrowserIdle(FALSE)
  /\ ServerIdle(<<>>)
  /\ DevIdle(TRUE)
  /\ \E t \in Trees(MaxDevNodes) : ScanIdle(t)

NextDev ==
  \/ DevSelectDirectory
  \/ DevGetImageFiles
  \/ ApiRespondOk
  \/ ApiFail
  \/ IterYield
  \/ IterDone
  \/ IterThrow
  \/ GetFileResolve
  \/ GetFileReject

SpecDev == InitDev /\ [][NextDev]_vars

InitFileApi ==
  /\ GrantIdle
  /\ ScanIdle(<<>>)
  /\ watchOutcome = NoWatch
  /\ DevIdle(TRUE)
  /\ BrowserIdle(FALSE)
  /\ \E dir \in ServerDirs : ServerIdle(dir)

NextFileApi == FileApiGet

SpecFileApi == InitFileApi /\ [][NextFileApi]_vars

----------------------------------------------------------------------------
(* What a finished scan is compared with *)

ScanDone == scanState \in {"resolved", "rejected"}

FileEntries == {i \in 1..Len(fs) : fs[i].kind = "file"}

\* the entries whose records the resolved listing holds
Listed == {scanResult.files[k].file : k \in 1..Len(scanResult.files)}

\* the entries getFile() was called on and resolved for
Materialized == {getFileCalls[k] : k \in 1..Len(getFileCalls)} \ fileFailed

FailedDirs == {r.dir : r \in enumFailed}

\* the child of directory a through which the walk gets to entry f
BranchToward(a, f) == CHOOSE c \in Ancestors(fs, f) \ {0} : fs[c].parent = a

ChildIndex(d, c) ==
  CHOOSE k \in 1..Len(Children(fs, d)) : Children(fs, d)[k] = c

\* no iterator on the way from the scan root to f threw before it yielded
\* the entry that leads to f
NotCutOff(f) ==
  \A r \in enumFailed :
    r.dir \in Ancestors(fs, fs[f].parent)
      => ChildIndex(r.dir, BranchToward(r.dir, f)) <= r.pos

\* the extension as the listing contract words it: the part of the name
\* from the last '.' on, lower-cased
ExtensionOf(name) == ToLowerCase(Substring(name, LastIndexOf(name, ".")))

HasSupportedExtension(name) ==
  /\ LastIndexOf(name, ".") >= 0
  /\ Includes(SupportedExtensions, ExtensionOf(name))

----------------------------------------------------------------------------
(* Claims *)

\* C1: partial-failure tolerance.  When no directory iterator throws,
\* getImageFiles resolves, and the listing holds exactly one record for each
\* file whose getFile() resolved: none for a file whose getFile() rejected,
\* whatever the number of such files.
C1_PartialFailureTolerance ==
  (ScanDone /\ enumFailed = {}) =>
     /\ scanState = "resolved"
     /\ scanResult.status = "resolved"
     /\ Listed = Materialized
     /\ Len(scanResult.files) = Cardinality(Materialized)
     /\ Listed \cap fileFailed = {}
     /\ \A f \in FileEntries : IsImageFile(fs[f].name) =>
           (f \in Listed \/ f \in fileFailed)

\* C1 witness: a finished scan in which one file failed to materialize and
\* another one is listed
C1_Witness ==
  /\ scanState = "resolved"
  /\ enumFailed = {}
  /\ fileFailed # {}
  /\ Len(scanResult.files) >= 1

\* C2: a throw of the scan root's iterator, before or after it yielded
\* entries, makes getImageFiles reject with FILE_SCAN_FAILED that carries the
\* thrown error (wrapped in an Error when it is not one); no listing is
\* returned.
C2_RootFailureIsFatal ==
  (0 \in FailedDirs) =>
     /\ scanState = "rejected"
     /\ scanResult.status = "rejected"
     /\ scanResult.files = <<>>
     /\ scanResult.error.type = "FILE_SCAN_FAILED"
     /\ scanResult.error.originalError.isError
     /\ scanResult.error.originalError.text = rootThrown.text
     /\ rootThrown.isError => scanResult.error.originalError = rootThrown

\* C2 witness: the root iterator threw after records had been collected
C2_Witness ==
  /\ scanState = "rejected"
  /\ \E r \in enumFailed : r.dir = 0 /\ r.pos > 0
  /\ imageFiles # <<>>

\* C3: a throw of the iterator of a subdirectory, at any depth, does not make
\* getImageFiles reject, and a qualifying file that the walk meets after the
\* failed subdirectory is listed.
C3_SubdirectoryFailureTolerated ==
  ScanDone =>
     /\ (0 \notin FailedDirs) => scanState = "resolved"
     /\ scanState = "resolved" =>
          \A d \in FailedDirs \ {0} : \A f \in FileEntries :
             ( /\ f > d
               /\ d \notin Ancestors(fs, f)
               /\ IsImageFile(fs[f].name)
               /\ f \notin fileFailed
               /\ NotCutOff(f) ) => f \in Listed

\* C3 witness: a subdirectory below another subdirectory failed and a file
\* met later is listed
C3_Witness ==
  /\ scanState = "resolved"
  /\ \E d \in FailedDirs \ {0} :
       /\ fs[d].parent # 0
       /\ \E f \in Listed : f > d /\ d \notin Ancestors(fs, f)

\* C4: a chooser rejection with an Error named AbortError makes
\* selectDirectory resolve to null, whatever the message.
C4_CancellationIsNotFailure ==
  (lastCause.isError /\ lastCause.name = "AbortError") =>
     lastOutcome = Returned("null")

\* C4 witness: an AbortError whose message is not the usual one ended a call
C4_Witness ==
  /\ lastCause.isError
  /\ lastCause.name = "AbortError"
  /\ lastCause.text = "The request is not allowed"
  /\ lastOutcome.kind = "resolved"

\* C5: a selectDirectory call made while the capability is absent rejects
\* with BROWSER_NOT_SUPPORTED, does not invoke the chooser and leaves the
\* stored handle alone.
C5_UnsupportedRejects ==
  [][ (selectCalls' = selectCalls + 1 /\ ~supported) =>
        /\ lastOutcome'.kind = "rejected"
        /\ lastOutcome'.error.type = "BROWSER_NOT_SUPPORTED"
        /\ pickerCalls' = pickerCalls
        /\ pickerPending' = pickerPending
        /\ directoryHandle' = directoryHandle ]_vars

\* C5 witness: an unsupported call ended after a handle had been stored
C5_Witness ==
  /\ lastOutcome.kind = "rejected"
  /\ lastOutcome.error.type = "BROWSER_NOT_SUPPORTED"
  /\ ~supported
  /\ directoryHandle # "null"

\* C6: a chooser rejection with an Error named NotAllowedError makes
\* selectDirectory reject with PERMISSION_DENIED whose originalError is that
\* error.
C6_PermissionDenied ==
  (lastCause.isError /\ lastCause.name = "NotAllowedError") =>
     /\ lastOutcome.kind = "rejected"
     /\ lastOutcome.error.type = "PERMISSION_DENIED"
     /\ lastOutcome.error.originalError = lastCause

\* C6 witness: a NotAllowedError ended a call
C6_Witness ==
  /\ lastCause.isError
  /\ lastCause.name = "NotAllowedError"
  /\ lastOutcome.kind = "rejected"

\* C7: any other chooser rejection, a non-Error value included, makes
\* selectDirectory reject with DIRECTORY_ACCESS_DENIED that wraps the value;
\* every outcome is a directory name, null, BROWSER_NOT_SUPPORTED,
\* PERMISSION_DENIED or DIRECTORY_ACCESS_DENIED.
C7_OtherFailuresAccessDenied ==
  /\ ( /\ lastCause # NoError
       /\ ~(lastCause.isError /\ lastCause.name \in {"AbortError", "NotAllowedError"}) )
     => /\ lastOutcome.kind = "rejected"
        /\ lastOutcome.error.type = "DIRECTORY_ACCESS_DENIED"
        /\ lastOutcome.error.originalError.isError
        /\ lastOutcome.error.originalError.text = lastCause.text
        /\ lastCause.isError => lastOutcome.error.originalError = lastCause
  /\ lastOutcome.kind = "resolved" =>
        lastOutcome.value \in {HandleName(h) : h \in Handles} \cup {"null"}
  /\ lastOutcome.kind = "rejected" =>
        lastOutcome.error.type \in {"BROWSER_NOT_SUPPORTED", "PERMISSION_DENIED",
                                    "DIRECTORY_ACCESS_DENIED"}

\* C7 witness: a value that is not an Error, though it is named AbortError,
\* ended a call
C7_Witness ==
  /\ ~lastCause.isError
  /\ lastCause.name = "AbortError"
  /\ lastOutcome.kind = "rejected"

\* C8: getCurrentDirectoryHandle returns the handle of the most recent
\* chooser call that resolved, null before the first; only a successful call
\* changes it, to the handle whose name the call returns.
C8_HandleIsLastGrant ==
  /\ [](GetCurrentDirectoryHandle = lastGranted)
  /\ [][ directoryHandle' # directoryHandle =>
           /\ pickerPending' = pickerPending - 1
           /\ lastOutcome'.kind = "resolved"
           /\ lastOutcome'.value = HandleName(directoryHandle') ]_vars

\* C8 witness: after a grant, a later call failed and the handle is still
\* the granted one
C8_Witness ==
  /\ lastGranted # "null"
  /\ lastOutcome.kind = "rejected"
  /\ GetCurrentDirectoryHandle = lastGranted

\* C9: in every listing getImageFiles resolves with, each record is at least
\* as new as the one after it.
C9_DefaultOrder ==
  scanState = "resolved" =>
    \A k \in 1..(Len(scanResult.files) - 1) :
       scanResult.files[k].createdDate >= scanResult.files[k + 1].createdDate

\* C9 witness: a listing whose first record was discovered after its second
\* and is newer
C9_Witness ==
  /\ scanState = "resolved"
  /\ Len(scanResult.files) >= 2
  /\ scanResult.files[1].file > scanResult.files[2].file
  /\ scanResult.files[1].createdDate > scanResult.files[2].createdDate

\* C10: filter correctness.  A file entry the walk gets to and whose getFile()
\* does not reject is listed if and only if the part of its name from the
\* last '.' on, lower-cased, is .jpg, .jpeg, .png, .gif or .webp.
C10_FilterCorrectness ==
  scanState = "resolved" =>
    \A f \in FileEntries :
       (NotCutOff(f) /\ f \notin fileFailed) =>
          (f \in Listed <=> HasSupportedExtension(fs[f].name))

\* the names from the scan root down to entry i, joined with '/'
RECURSIVE PathFromRoot(_)
PathFromRoot(i) ==
  IF fs[i].parent = 0 THEN fs[i].name
  ELSE PathFromRoot(fs[i].parent) \o <<"/">> \o fs[i].name

\* C11: recursive path construction.  The path of every listed record is the
\* names of the directories from the scan root down to the file and the
\* file's entry name, joined with '/', without a leading '/'; the path of a
\* root-level file is its name.
C11_PathConstruction ==
  scanState = "resolved" =>
    \A k \in 1..Len(scanResult.files) :
       LET r == scanResult.files[k]
       IN /\ r.path = PathFromRoot(r.file)
          /\ r.path[1] # "/"
          /\ fs[r.file].parent = 0 => r.path = fs[r.file].name

\* C11 witness: b.jpg inside subdirectory a is listed with path a/b.jpg
C11_Witness ==
  /\ scanState = "resolved"
  /\ \E k \in 1..Len(scanResult.files) :
       /\ scanResult.files[k].path = <<"a", "/", "b", ".", "j", "p", "g">>
       /\ fs[scanResult.files[k].file].parent # 0

\* C19: in the listing of one completed scan no two records have the same
\* path, also when files in different directories have the same name.
C19_PathsUnique ==
  scanState = "resolved" =>
    \A j, k \in 1..Len(scanResult.files) :
       j # k => scanResult.files[j].path # scanResult.files[k].path

\* C19 witness: two listed records have the same name
C19_Witness ==
  /\ scanState = "resolved"
  /\ \E j, k \in 1..Len(scanResult.files) :
       /\ j # k
       /\ scanResult.files[j].name = scanResult.files[k].name

\* C12: watchDirectory and unwatchDirectory throw BROWSER_NOT_SUPPORTED for
\* every argument, before and after a grant, and do not touch the stored
\* handle.
C12_WatchNotSupported ==
  /\ [](watchOutcome.op # "none" =>
          /\ watchOutcome.kind = "threw"
          /\ watchOutcome.error.type = "BROWSER_NOT_SUPPORTED")
  /\ [][ watchOutcome' # watchOutcome =>
           /\ directoryHandle' = directoryHandle
           /\ GetCurrentDirectoryHandle' = GetCurrentDirectoryHandle ]_vars

\* C12 witness: unwatchDirectory threw while a granted handle was stored
C12_Witness ==
  /\ watchOutcome.op = "unwatchDirectory"
  /\ watchOutcome.kind = "threw"
  /\ directoryHandle # "null"

\* C13: a successful directory selection in DirectorySelector is followed by
\* DirectoryBrowser running getImageFiles on the handle that selection
\* granted, not by a 'no handle' error.
C13_GrantToScan ==
  [][ ( /\ pickerPending' = pickerPending - 1
        /\ lastOutcome'.kind = "resolved"
        /\ lastOutcome'.value # "null" )
      => /\ scanning' = lastGranted'
         /\ scanState' = "running"
         /\ fs' = HandleTree(lastGranted')
         /\ browserError' # "MSG_NO_HANDLE" ]_vars

C15_SortTogglePolicy ==
  /\ [](\A k \in SortOptions :
          /\ HandleSortClick(sortBy, sortOrder, k).sortBy = k
          /\ HandleSortClick(sortBy, sortOrder, k).sortOrder =
               IF k = sortBy THEN OppositeOrder(sortOrder) ELSE "asc")
  /\ [][ sortBy' # sortBy => sortOrder' = "asc" ]_vars
  /\ [][ (sortBy' = sortBy /\ sortOrder' # sortOrder)
         => sortOrder' = OppositeOrder(sortOrder) ]_vars

\* C15 witness: the key was changed and its button clicked again
C15_Witness ==
  /\ sortBy = "name"
  /\ sortOrder = "desc"
  /\ SortButtonsRendered

\* C18: the listing DirectoryBrowser holds is empty while a scan is pending
\* and after a scan that failed, and otherwise is exactly what the most
\* recent scan resolved with, every record being an entry of the directory
\* selected last.
C18_WholesaleReplacement ==
  /\ \/ browserImageFiles = <<>>
     \/ /\ scanResult.status = "resolved"
        /\ browserImageFiles = scanResult.files
        /\ fs = HandleTree(lastGranted)
        /\ selectedDirectory = HandleName(lastGranted)
        /\ \A k \in 1..Len(browserImageFiles) :
             /\ browserImageFiles[k].file \in 1..Len(fs)
             /\ browserImageFiles[k] =
                  ImageFileInfo(fs, browserImageFiles[k].file, browserImageFiles[k].path)
  /\ (scanning # "none" \/ scanResult.status = "rejected") => browserImageFiles = <<>>

\* C18 witness: a listing of the second directory is held after the sort key
\* had been changed on an earlier listing and two choosers had been opened
C18_Witness ==
  /\ pickerCalls >= 2
  /\ selectedDirectory = "scans"
  /\ Len(browserImageFiles) = 1
  /\ sortBy = "name"

\* C20: whenever no selectDirectory call is suspended on the chooser and no
\* getImageFiles call of the browser is outstanding, both loading flags are
\* false, whatever errors the calls ended with; the select button then
\* accepts a click.
C20_NoErrorIsFatal ==
  /\ pickerPending = 0 => ~selectorIsLoading
  /\ scanning = "none" => ~browserIsLoading
  /\ selectorIsLoading => pickerPending = 1
  /\ browserIsLoading => scanning # "none"

\* C20 witness: a getImageFiles rejection and a later selectDirectory
\* rejection have both been shown, and both flags are false
C20_Witness ==
  /\ browserError = "MSG_FILE_SCAN_FAILED"
  /\ selectorError = "MSG_PERMISSION_DENIED"
  /\ scanResult.status = "rejected"
  /\ ~selectorIsLoading
  /\ ~browserIsLoading

\* C16: the array getImageFiles resolves with is in descending createdDate
\* order whichever source filled it, the development API included.
C16_AlwaysNewestFirst ==
  scanState = "resolved" =>
    \A j, k \in 1..Len(scanResult.files) :
       j < k => scanResult.files[j].createdDate >= scanResult.files[k].createdDate

\* C17: thumbnailUrl is undefined on every record getImageFiles resolves
\* with, from a handle or from the development API.
C17_ThumbnailAbsent ==
  scanState = "resolved" =>
    \A k \in 1..Len(scanResult.files) : scanResult.files[k].thumbnailUrl = "undefined"


\* the place of entry f in the order getFile() was called
DiscoveryIndex(f) == CHOOSE k \in 1..Len(getFileCalls) : getFileCalls[k] = f

\* C21: records with equal createdDate are listed in the order the scan
\* discovered them: depth-first, in enumeration order, the records of a
\* subdirectory before those of its later siblings.
C21_StableTieBreak ==
  scanState = "resolved" =>
    \A j, k \in 1..Len(scanResult.files) :
       (j < k /\ scanResult.files[j].createdDate = scanResult.files[k].createdDate)
         => /\ DiscoveryIndex(scanResult.files[j].file)
                 < DiscoveryIndex(scanResult.files[k].file)
            /\ scanResult.files[j].file < scanResult.files[k].file

\* C21 witness: two records of equal date, the first from a subdirectory, the
\* second a later sibling of that subdirectory
C21_Witness ==
  /\ scanState = "resolved"
  /\ \E j, k \in 1..Len(scanResult.files) :
       /\ j < k
       /\ scanResult.files[j].createdDate = scanResult.files[k].createdDate
       /\ fs[scanResult.files[j].file].parent # 0
       /\ fs[scanResult.files[k].file].parent = 0

\* _scanDirectory on the entries ch of one directory of the tree t, every
\* platform call completing: the records in the order they are pushed
RECURSIVE WalkChildren(_, _, _)
WalkChildren(t, ch, basePath) ==
  IF ch = <<>> THEN <<>>
  ELSE LET c == Head(ch)
           currentPath == CurrentPath(basePath, t[c].name)
           here == IF t[c].kind = "file"
                     THEN IF IsImageFile(t[c].name)
                            THEN <<ImageFileInfo(t, c, currentPath)>>
                            ELSE <<>>
                     ELSE WalkChildren(t, Children(t, c), currentPath)
       IN here \o WalkChildren(t, Tail(ch), basePath)

\* getImageFiles on the tree t, every platform call completing
ScanListing(t) == DefaultSort(WalkChildren(t, Children(t, 0), <<>>))

RECURSIVE TreePath(_, _)
TreePath(t, i) ==
  IF t[i].parent = 0 THEN t[i].name
  ELSE TreePath(t, t[i].parent) \o <<"/">> \o t[i].name

\* the entries of t, whatever the order its directories yield them in
EntrySet(t) ==
  { [path |-> TreePath(t, i), kind |-> t[i].kind, lastModified |-> t[i].lastModified] :
      i \in 1..Len(t) }

\* a listing as its caller sees it: paths and dates, in order
Shown(files) ==
  [k \in 1..Len(files) |-> [path |-> files[k].path, createdDate |-> files[k].createdDate]]

\* every tree the scan is run on
AllTrees == Trees(MaxOrderNodes)

\* the trees that hold the entries of fs, in any enumeration order
Reorderings == {t2 \in AllTrees : Len(t2) = Len(fs) /\ EntrySet(t2) = EntrySet(fs)}

\* the scan the actions ran step by step is the scan ScanListing computes
ScanIsScanListing ==
  (scanState = "resolved" /\ enumFailed = {} /\ fileFailed = {})
     => scanResult.files = ScanListing(fs)

\* C22: order determinism.  For a fixed set of files the listing has the
\* same order whatever the order the directories yield their entries in,
\* files of equal date included.
C22_OrderDeterminism ==
  (scanState = "resolved" /\ enumFailed = {} /\ fileFailed = {}) =>
     \A t2 \in Reorderings : Shown(ScanListing(t2)) = Shown(scanResult.files)

\* C22 (amended): for a fixed set of files no two of which have the same
\* date, the listing has the same order whatever the order the directories
\* yield their entries in.
C22_DeterminismWithoutTies ==
  ( /\ scanState = "resolved" /\ enumFailed = {} /\ fileFailed = {}
    /\ \A i, j \in FileEntries : i # j => fs[i].lastModified # fs[j].lastModified ) =>
     \A t2 \in Reorderings : Shown(ScanListing(t2)) = Shown(scanResult.files)

\* C22 witness: two files of different dates are listed and the tree has
\* another enumeration order
C22_Witness ==
  /\ scanState = "resolved"
  /\ enumFailed = {}
  /\ fileFailed = {}
  /\ Len(scanResult.files) = 2
  /\ scanResult.files[1].createdDate # scanResult.files[2].createdDate
  /\ \E t2 \in Reorderings : t2 # fs

\* C23: when selectDirectory resolves to null, DirectorySelector calls no
\* onDirectorySelect and shows no error; the browser's selected directory,
\* listing, error, sort and scan are what they were before the click.
C23_CancelChangesNothing ==
  /\ [][ (pickerPending' = pickerPending - 1 /\ lastOutcome' = Returned("null"))
         => /\ selectorError' = "null"
            /\ ~selectorIsLoading'
            /\ UNCHANGED <<selectedDirectory, browserImageFiles, browserError,
                           browserIsLoading, sortBy, sortOrder, scanning>>
            /\ UNCHANGED scanVars ]_vars
  /\ [][ selectCalls' = selectCalls + 1
         => /\ UNCHANGED <<selectedDirectory, browserImageFiles, browserError,
                           browserIsLoading, sortBy, sortOrder, scanning>>
            /\ UNCHANGED scanVars ]_vars

\* C23 witness: the latest call was cancelled while a listing sorted by name
\* was shown
C23_Witness ==
  /\ lastOutcome = Returned("null")
  /\ pickerPending = 0
  /\ browserImageFiles # <<>>
  /\ selectedDirectory = "photos"
  /\ sortBy = "name"

\* C24: selectDirectory is called only while no call of the selector is
\* pending and the browser is not scanning; so at most one chooser request and
\* at most one scan are in flight, and a scan starts only when none is running.
C24_ReentrancyGuard ==
  /\ [](pickerPending <= 1)
  /\ [](~(pickerPending > 0 /\ scanning # "none"))
  /\ [][ selectCalls' = selectCalls + 1
         => /\ pickerPending = 0
            /\ ~selectorIsLoading
            /\ ~browserIsLoading
            /\ scanning = "none"
            /\ scanState # "running" ]_vars
  /\ [][ (scanning' # scanning /\ scanning' # "none")
         => (scanning = "none" /\ scanState # "running") ]_vars

\* C24 witness: the button is disabled by a running scan of the second
\* selection
C24_Witness ==
  /\ scanning # "none"
  /\ scanState = "running"
  /\ browserIsLoading
  /\ ~selectorIsLoading
  /\ pickerCalls >= 2

\* C25: getImageFiles of the development-capable service, called without a
\* handle and not taking the API path, rejects with DIRECTORY_ACCESS_DENIED.
\* (A call that rejects without having been suspended is such a call.)
C25_NoHandleIsAccessDenied ==
  [][ (scanState # "running" /\ scanState' = "rejected")
      => /\ scanResult'.status = "rejected"
         /\ scanResult'.error.type = "DIRECTORY_ACCESS_DENIED" ]_vars

SortOrders == {"asc", "desc"}

\* the place of a record in the listing the browser holds
SourceIndex(r) == CHOOSE k \in 1..Len(browserImageFiles) : browserImageFiles[k] = r

\* two records of the held listing compare equal on the key
HasTies(key) ==
  \E i, j \in 1..Len(browserImageFiles) :
     i # j /\ Comparison(browserImageFiles[i], browserImageFiles[j], key) = 0

\* C29: sortedFiles is a sorted copy.  For every key and direction it holds
\* the records of the listing, ordered by the comparator whose sign the
\* direction inverts; records that compare equal keep the order of the
\* listing under asc and under desc, so desc is the reverse of asc exactly
\* when no two records compare equal; the listing itself is not reordered.
C29_SortEngine ==
  /\ [](\A key \in SortOptions :
          /\ \A order \in SortOrders :
               LET out == SortedFilesOf(browserImageFiles, key, order)
               IN /\ Len(out) = Len(browserImageFiles)
                  /\ {out[k] : k \in 1..Len(out)}
                       = {browserImageFiles[k] : k \in 1..Len(browserImageFiles)}
                  /\ \A i, j \in 1..Len(out) :
                       i < j =>
                         /\ SortComparator(out[i], out[j], key, order) <= 0
                         /\ SortComparator(out[i], out[j], key, order)
                              = (IF order = "asc" THEN 1 ELSE -1)
                                  * Comparison(out[i], out[j], key)
                         /\ Comparison(out[i], out[j], key) = 0
                              => SourceIndex(out[i]) < SourceIndex(out[j])
          /\ (SortedFilesOf(browserImageFiles, key, "desc")
                = Reverse(SortedFilesOf(browserImageFiles, key, "asc")))
               <=> ~HasTies(key))
  /\ [][ (sortBy' # sortBy \/ sortOrder' # sortOrder)
         => browserImageFiles' = browserImageFiles ]_vars

\* C29 witness: a listing of two records of one name is shown sorted by name,
\* descending
C29_Witness ==
  /\ sortBy = "name"
  /\ sortOrder = "desc"
  /\ Len(browserImageFiles) = 2
  /\ HasTies("name")
  /\ ~HasTies("createdDate")
  /\ SortedFiles = browserImageFiles

\* C30: in the rendered list a row is marked selected exactly when its
\* record's file is the selected file, and at most one row is marked, also
\* when two records share a leaf name.
C30_SingleSelection ==
  SortButtonsRendered =>
    /\ \A k \in 1..Len(SortedFiles) :
         IsFileSelected(SortedFiles[k]) <=> selectedFile = FileOf(SortedFiles[k])
    /\ Cardinality({k \in 1..Len(SortedFiles) : IsFileSelected(SortedFiles[k])}) <= 1

\* the directory the server serves from, as segments
TargetSegments == Resolve(targetDir, <<".">>)

\* the path the latest request names, as segments
RequestedSegments == Resolve(targetDir, FileNameOf(fileResponse.url))

\* p is the directory t or lies inside it
Within(p, t) == Len(p) >= Len(t) /\ SubSeq(p, 1, Len(t)) = t

\* C26: the file endpoint serves a file only from inside the target
\* directory; a name that resolves outside it, a sibling directory whose path
\* starts with the target's path included, is answered 403 without content.
C26_TraversalSafety ==
  (fileResponse # NoFileResponse /\ targetDir # <<>> /\ FileNameOf(fileResponse.url) # <<>>) =>
     /\ fileResponse.served # <<>> =>
          /\ Within(RequestedSegments, TargetSegments)
          /\ RequestedSegments # TargetSegments
     /\ ~Within(RequestedSegments, TargetSegments) =>
          /\ fileResponse.status = 403
          /\ fileResponse.served = <<>>


\* the file entries at or below entry c
FilesUnder(c) == {f \in FileEntries : c \in Ancestors(fs, f)}

\* C27: when the iterator of a subdirectory throws after it yielded k
\* entries, the records of the files among those k whose getFile() resolved
\* stay in the listing getImageFiles resolves with, and nothing of what the
\* iterator had not yet yielded is in it.
C27_SubtreeCutShort ==
  scanState = "resolved" =>
    \A r \in enumFailed :
      r.dir # 0 =>
        LET ch == Children(fs, r.dir)
        IN /\ \A k \in 1..r.pos :
                (fs[ch[k]].kind = "file" /\ ch[k] \in Materialized) => ch[k] \in Listed
           /\ \A k \in (r.pos + 1)..Len(ch) :
                \A f \in FilesUnder(ch[k]) :
                  /\ f \notin Listed
                  /\ \A j \in 1..Len(getFileCalls) : getFileCalls[j] # f

C27_Witness ==
  /\ scanState = "resolved"
  /\ \E r \in enumFailed :
       /\ r.dir # 0
       /\ r.pos >= 1
       /\ LET ch == Children(fs, r.dir)
          IN /\ \E k \in 1..r.pos : ch[k] \in Listed
             /\ \E k \in (r.pos + 1)..Len(ch) :
                  /\ fs[ch[k]].kind = "file"
                  /\ IsImageFile(fs[ch[k]].name)
                  /\ ch[k] \notin Listed


\* no value occurs twice in the sequence q
NoRepeat(q) == \A i, j \in 1..Len(q) : q[i] = q[j] => i = j

DirectoryEntries == {i \in 1..Len(fs) : fs[i].kind = "directory"}

\* each directory is enumerated at most once and, when no iterator throws,
\* exactly once by the end; getFile() is called at most once per entry, on
\* files whose name passes _isImageFile only; the scan waits on one
\* platform call at a time
C28_SingleVisit ==
  /\ NoRepeat(enumCalls)
  /\ \A k \in 1..Len(enumCalls) : enumCalls[k] \in DirectoryEntries \cup {0}
  /\ (scanState = "resolved" /\ enumFailed = {}) =>
        {enumCalls[k] : k \in 1..Len(enumCalls)} = DirectoryEntries \cup {0}
  /\ NoRepeat(getFileCalls)
  /\ \A k \in 1..Len(getFileCalls) :
       /\ getFileCalls[k] \in FileEntries
       /\ IsImageFile(fs[getFileCalls[k]].name)
  /\ IF scanState = "running"
       THEN /\ awaiting.op \in {"next", "getFile"}
            /\ awaiting.op = "getFile" =>
                 /\ getFileCalls # <<>>
                 /\ awaiting.node = getFileCalls[Len(getFileCalls)]
       ELSE awaiting.op = "none"

\* C28: termination and single visit.  When every platform call settles, a
\* running getImageFiles ends; each directory is enumerated at most once
\* (exactly once when no iterator throws), getFile() is called at most once
\* per file entry and only for names that pass the extension filter, and at
\* most one platform call is outstanding at any moment.
C28_TerminationSingleVisit ==
  /\ []C28_SingleVisit
  /\ (scanState = "running") ~> ScanDone

C28_Witness ==
  /\ scanState = "resolved"
  /\ enumFailed = {}
  /\ Len(enumCalls) = 2
  /\ \E f \in FileEntries : fs[f].parent # 0 /\ getFileCalls = <<f>>

====
